---------------------------- MODULE Spec2Model ----------------------------
(***************************************************************************)
(* Model of kinesis-firehose-cloudwatch-logs-processor.py: the Firehose    *)
(* transformation Lambda that decodes CloudWatch Logs records, wraps them  *)
(* as Splunk events, diverts records past the size ceiling to re-ingestion *)
(* batches and delivers those batches to the stream with bounded retries.  *)
(*                                                                         *)
(* Representation.  A JSON value is a record [t, v] (t the kind); a dict   *)
(* is an ordered sequence of <<key, value>> pairs, as Python keeps it.     *)
(* Texts are TLA+ strings.  A raw payload is [head, body, text]: head the  *)
(* bytes peek(3) returns, body how the bytes decode, text the document     *)
(* the bytes hold.  Python dicts with optional keys (an output record      *)
(* with or without "data") are records whose DOMAIN varies.                *)
(***************************************************************************)
EXTENDS Integers, Sequences, FiniteSets, TLC

(***************************************************************************)
(* Bounds of the model (the program's own values are far larger).          *)
(***************************************************************************)
\* most input records in one invocation
MaxRecords == 3
\* the ceiling maxSize (MAXSIZE, 9900000 by default), scaled to the model's records
maxSize == 102
\* the batch limit of the re-ingestion loop (500 in the code), scaled
BatchLimit == 2
\* the maxAttempts the handler hands to the put functions (20 in the code), scaled
HandlerMaxAttempts == 2
\* most records of the batch, and the largest maxAttempts, of a put call run alone
SinkBatch == 2
SinkMaxAttempts == 3
\* most input records of processRecords run alone
AsmRecords == 2

(***************************************************************************)
(* JSON values and Python's dict operations                                *)
(***************************************************************************)
Str(s) == [t |-> "str", v |-> s]
Num(n) == [t |-> "num", v |-> n]
Obj(kv) == [t |-> "obj", v |-> kv]
Arr(xs) == [t |-> "arr", v |-> xs]
JTrue == [t |-> "bool", v |-> 1]
JNull == [t |-> "null", v |-> 0]

\* k in d, for a dict d
HasKey(d, k) == \E i \in 1..Len(d.v) : d.v[i][1] = k
\* d[k]
GetKey(d, k) == d.v[CHOOSE i \in 1..Len(d.v) : d.v[i][1] = k][2]
\* d[k] = x: an existing key keeps its place, a new key goes last
PutKey(d, k, x) ==
    IF HasKey(d, k)
    THEN Obj([i \in 1..Len(d.v) |-> IF d.v[i][1] = k THEN <<k, x>> ELSE d.v[i]])
    ELSE Obj(Append(d.v, <<k, x>>))
\* del d[k]
DelKey(d, k) == Obj(SelectSeq(d.v, LAMBDA p : p[1] # k))

RECURSIVE UpdateFrom(_, _, _)
UpdateFrom(d, kv, i) ==
    IF i > Len(kv) THEN d ELSE UpdateFrom(PutKey(d, kv[i][1], kv[i][2]), kv, i + 1)
\* d.update(e), for dicts d and e
Update(d, e) == UpdateFrom(d, e.v, 1)

(***************************************************************************)
(* json.dumps with the default separators ", " and ": ".  Escape is what   *)
(* json.dumps does to a string's characters, given for the strings of the  *)
(* model: only the nested "log" document holds characters it escapes.      *)
(***************************************************************************)
Escape(s) ==
    IF s = "{\"a\": 1}" THEN "{\\\"a\\\": 1}" ELSE s

RECURSIVE Dumps(_)
RECURSIVE DumpsItems(_, _, _)
DumpsItems(xs, i, isDict) ==
    IF i > Len(xs) THEN ""
    ELSE (IF i > 1 THEN ", " ELSE "")
         \o (IF isDict THEN "\"" \o xs[i][1] \o "\": " \o Dumps(xs[i][2])
                       ELSE Dumps(xs[i]))
         \o DumpsItems(xs, i + 1, isDict)
Dumps(x) ==
    CASE x.t = "str" -> "\"" \o Escape(x.v) \o "\""
      [] x.t = "num" -> ToString(x.v)
      [] x.t = "bool" -> IF x.v = 1 THEN "true" ELSE "false"
      [] x.t = "null" -> "null"
      [] x.t = "arr" -> "[" \o DumpsItems(x.v, 1, FALSE) \o "]"
      [] x.t = "obj" -> "{" \o DumpsItems(x.v, 1, TRUE) \o "}"

(***************************************************************************)
(* The documents of the model                                              *)
(***************************************************************************)
LogEvent1 == Obj(<< <<"id", Str("1")>>, <<"timestamp", Num(1000)>>,
                    <<"message", Str("hello")>> >>)
\* a log event without a timestamp
LogEvent2 == Obj(<< <<"id", Str("2")>>, <<"message", Str("bye")>> >>)
DataEnvelope(events) ==
    Obj(<< <<"messageType", Str("DATA_MESSAGE")>>, <<"owner", Str("acct")>>,
           <<"logGroup", Str("lg")>>, <<"logStream", Str("ls")>>,
           <<"logEvents", Arr(events)>> >>)
V_ctl == Obj(<< <<"messageType", Str("CONTROL_MESSAGE")>> >>)
V_data0 == DataEnvelope(<< >>)
V_data1 == DataEnvelope(<<LogEvent1>>)
V_data2 == DataEnvelope(<<LogEvent1, LogEvent2>>)
\* a data message without owner, logGroup and logStream
V_dataNoOwner ==
    Obj(<< <<"messageType", Str("DATA_MESSAGE")>>, <<"logEvents", Arr(<<LogEvent1>>)>> >>)
V_other == Obj(<< <<"messageType", Str("X")>> >>)
V_otherCont ==
    Obj(<< <<"messageType", Str("X")>>, <<"container_id", Str("c")>>,
           <<"log", Str("plain")>> >>)
V_nested == Obj(<< <<"a", Num(1)>> >>)
V_cont == Obj(<< <<"container_id", Str("c")>>, <<"log", Str("{\"a\": 1}")>> >>)
V_contPlain == Obj(<< <<"container_id", Str("c")>>, <<"log", Str("plain")>> >>)
V_contNum == Obj(<< <<"container_id", Str("c")>>, <<"log", Str("5")>> >>)
V_opaque == Obj(<< <<"b", Num(2)>> >>)
V_num == Num(5)
V_arr == Arr(<< >>)
V_arrMT == Arr(<<Str("messageType")>>)
V_str == Str("a")
V_strMT == Str("messageType")

JsonValues ==
    { V_ctl, V_data0, V_data1, V_data2, V_dataNoOwner, V_other, V_otherCont,
      V_nested, V_cont, V_contPlain, V_contNum, V_opaque, V_num, V_arr,
      V_arrMT, V_str, V_strMT, JTrue, JNull }

\* the text of each JSON document of the model
TextOf == [x \in JsonValues |-> Dumps(x)]

(***************************************************************************)
(* json.loads on the documents of the model: the value whose text the      *)
(* document is, JSONDecodeError for a text that is none of them ("hi",     *)
(* "plain", the empty text).                                               *)
(***************************************************************************)
ValueOf ==
    [text \in {TextOf[x] : x \in JsonValues} |->
        CHOOSE x \in JsonValues : TextOf[x] = text]
Loads(doc) ==
    IF doc \in DOMAIN ValueOf
    THEN [ok |-> TRUE, val |-> ValueOf[doc]]
    ELSE [ok |-> FALSE]

(***************************************************************************)
(* Raw payloads: head is what peek(3) gives isgzip (the first bytes, at    *)
(* most three are read), body says how the bytes decode, text is the       *)
(* decoded document.                                                       *)
(***************************************************************************)
Plain(head, text) == [head |-> head, body |-> "utf8", text |-> text]
GzipMagic == <<31, 139, 8>>
P_empty == Plain(<< >>, "")
P_1f == Plain(<<31>>, "\\u001f")
P_1f8b == [head |-> <<31, 139>>, body |-> "badutf8", text |-> ""]
P_badutf == [head |-> <<255, 254>>, body |-> "badutf8", text |-> ""]
P_gzhi == [head |-> GzipMagic, body |-> "gzip", text |-> "hi"]
P_gzctl == [head |-> GzipMagic, body |-> "gzip", text |-> TextOf[V_ctl]]
P_badgz == [head |-> GzipMagic, body |-> "badgzip", text |-> ""]
P_x == Plain(<<120>>, "x")
P_hi == Plain(<<104, 105>>, "hi")
P_ctl == Plain(<<123, 34, 109>>, TextOf[V_ctl])
P_data0 == Plain(<<123, 34, 109>>, TextOf[V_data0])
P_data1 == Plain(<<123, 34, 109>>, TextOf[V_data1])
P_data2 == Plain(<<123, 34, 109>>, TextOf[V_data2])
P_dataNoOwner == Plain(<<123, 34, 109>>, TextOf[V_dataNoOwner])
P_other == Plain(<<123, 34, 109>>, TextOf[V_other])
P_otherCont == Plain(<<123, 34, 109>>, TextOf[V_otherCont])
P_cont == Plain(<<123, 34, 99>>, TextOf[V_cont])
P_contPlain == Plain(<<123, 34, 99>>, TextOf[V_contPlain])
P_contNum == Plain(<<123, 34, 99>>, TextOf[V_contNum])
P_opaque == Plain(<<123, 34, 98>>, TextOf[V_opaque])
P_num == Plain(<<53>>, TextOf[V_num])
P_null == Plain(<<110, 117, 108>>, TextOf[JNull])
P_true == Plain(<<116, 114, 117>>, TextOf[JTrue])
P_arr == Plain(<<91, 93>>, TextOf[V_arr])
P_arrMT == Plain(<<91, 34, 109>>, TextOf[V_arrMT])
P_str == Plain(<<34, 97, 34>>, TextOf[V_str])
P_strMT == Plain(<<34, 109, 101>>, TextOf[V_strMT])

\* every payload of the model
Payloads ==
    { P_empty, P_1f, P_1f8b, P_badutf, P_gzhi, P_gzctl, P_badgz, P_x, P_hi,
      P_ctl, P_data0, P_data1, P_data2, P_dataNoOwner, P_other, P_otherCont,
      P_cont, P_contPlain, P_contNum, P_opaque, P_num, P_null, P_true, P_arr,
      P_arrMT, P_str, P_strMT }
\* the payloads whole invocations are run on
HandlerPayloads == { P_empty, P_hi, P_ctl, P_otherCont, P_data1 }

\* base64: encoding wraps, decoding unwraps; the encoded length is 4 * ceil(n / 3)
B64Encode(x) == [b64 |-> x]
B64Decode(d) == d.b64
B64Len(n) == 4 * ((n + 2) \div 3)
\* len(rec["data"]) of an output record's data (the texts are ASCII)
DataLen(d) == B64Len(Len(d.b64))

(***************************************************************************)
(* isgzip: "yes", "no", or the IndexError of reading a byte the buffer     *)
(* does not hold (the and-chain stops at the first byte that differs).     *)
(***************************************************************************)
isgzip(buf) ==
    IF Len(buf) < 1 THEN "IndexError"
    ELSE IF buf[1] # 31 THEN "no"
    ELSE IF Len(buf) < 2 THEN "IndexError"
    ELSE IF buf[2] # 139 THEN "no"
    ELSE IF Len(buf) < 3 THEN "IndexError"
    ELSE IF buf[3] = 8 THEN "yes" ELSE "no"

\* addTimestamp: a dict without "timestamp" gets the clock's reading in front
addTimestamp(event, now) ==
    IF ~HasKey(event, "timestamp")
    THEN Update(Obj(<< <<"timestamp", Str(now)>> >>), event)
    ELSE event

addEventWrapper(event) == Obj(<< <<"event", event>> >>)

\* a variant that leaves the newline out
transformLogEvent_NoNewline(log_event, owner, group, stream, now) ==
    Dumps(Obj(<< <<"event",
                   addTimestamp(PutKey(PutKey(PutKey(log_event, "owner", owner),
                                              "log_group", group),
                                       "log_stream", stream), now)>> >>))

\* transformLogEvent, for a log event that is a dict
transformLogEvent(log_event, owner, group, stream, now) ==
    LET e1 == PutKey(log_event, "owner", owner)
        e2 == PutKey(e1, "log_group", group)
        e3 == PutKey(e2, "log_stream", stream)
    IN  Dumps(addEventWrapper(addTimestamp(e3, now))) \o "\n"

RECURSIVE JoinEvents(_, _, _, _, _, _)
\* "".join of the transformed log events i.. of the list
JoinEvents(events, i, owner, group, stream, now) ==
    IF i > Len(events) THEN ""
    ELSE transformLogEvent(events[i], owner, group, stream, now)
         \o JoinEvents(events, i + 1, owner, group, stream, now)

(***************************************************************************)
(* Python's "k in data" for a parsed document: key membership for a dict,  *)
(* element membership for a list, substring for a string (the strings of   *)
(* the model hold k only when they are k), TypeError for the rest.         *)
(***************************************************************************)
Contains(data, k) ==
    CASE data.t = "obj" -> IF HasKey(data, k) THEN "yes" ELSE "no"
      [] data.t = "arr" ->
            IF \E i \in 1..Len(data.v) : data.v[i].t = "str" /\ data.v[i].v = k
            THEN "yes" ELSE "no"
      [] data.t = "str" -> IF data.v = k THEN "yes" ELSE "no"
      [] OTHER -> "TypeError"

Raise(e) == [exc |-> e]
Yield(rec) == [exc |-> "none", rec |-> rec]
OkRecord(recId, message) ==
    [data |-> B64Encode(message), result |-> "Ok", recordId |-> recId]

\* the DATA_MESSAGE branch (lines 144-154)
DataMessage(data, recId, now) ==
    IF ~HasKey(data, "logEvents") THEN Raise("KeyError")
    ELSE LET events == GetKey(data, "logEvents").v
         IN  IF Len(events) = 0 THEN Yield(OkRecord(recId, ""))
             ELSE IF ~(HasKey(data, "owner") /\ HasKey(data, "logGroup")
                       /\ HasKey(data, "logStream"))
             THEN Raise("KeyError")
             ELSE IF \E i \in 1..Len(events) : events[i].t # "obj"
             THEN Raise("TypeError")
             ELSE Yield(OkRecord(recId,
                      JoinEvents(events, 1, GetKey(data, "owner"),
                                 GetKey(data, "logGroup"),
                                 GetKey(data, "logStream"), now)))

\* the container_id/log branch (lines 157-166)
ContainerLog(data, recId) ==
    IF data.t # "obj" \/ GetKey(data, "log").t # "str" THEN Raise("TypeError")
    ELSE LET logdata == Loads(GetKey(data, "log").v)
             merged ==
                 IF ~logdata.ok THEN data
                 ELSE DelKey(IF logdata.val.t = "obj"
                             THEN Update(data, logdata.val) ELSE data, "log")
         IN  IF logdata.ok /\ logdata.val.t \in {"num", "bool", "null"}
             THEN Raise("TypeError")
             ELSE IF logdata.ok /\ logdata.val.t = "str" /\ logdata.val.v # ""
             THEN Raise("ValueError")
             ELSE IF logdata.ok /\ logdata.val.t = "arr" /\ Len(logdata.val.v) > 0
             THEN Raise("TypeError")
             ELSE Yield(OkRecord(recId, Dumps(addEventWrapper(merged)) \o "\n"))

\* a variant that passes a control message on as an empty Ok record
ControlMessage_Ok(recId) == Yield(OkRecord(recId, ""))

\* line 143
ControlMessage(recId) == Yield([result |-> "Dropped", recordId |-> recId])

\* a variant that gives the result the name "Failed"
Unrecognized_Failed(recId) == Yield([result |-> "Failed", recordId |-> recId])

\* line 156
Unrecognized(recId) == Yield([result |-> "ProcessingFailed", recordId |-> recId])

\* what the parsed document yields (lines 141-170)
Dispatch(data, recId, now) ==
    LET inMT == Contains(data, "messageType")
    IN  IF inMT = "TypeError" THEN Raise("TypeError")
        ELSE IF inMT = "yes"
        THEN IF data.t # "obj" THEN Raise("TypeError")
             ELSE LET mt == GetKey(data, "messageType")
                  IN  IF mt.t = "str" /\ mt.v = "CONTROL_MESSAGE"
                      THEN ControlMessage(recId)
                      ELSE IF mt.t = "str" /\ mt.v = "DATA_MESSAGE"
                      THEN DataMessage(data, recId, now)
                      ELSE Unrecognized(recId)
        ELSE IF Contains(data, "container_id") = "yes" /\ Contains(data, "log") = "yes"
        THEN ContainerLog(data, recId)
        ELSE Yield(OkRecord(recId, Dumps(addEventWrapper(data)) \o "\n"))

\* the plain-text branch (lines 127-139)
Plaintext(doc, recId, now) ==
    LET plaintext == PutKey(addTimestamp(Obj(<< >>), now), "message", Str(doc))
    IN  Yield(OkRecord(recId, Dumps(addEventWrapper(plaintext)) \o "\n"))

(***************************************************************************)
(* One turn of processRecords' loop on input record r: the record it       *)
(* yields, or the exception it raises.                                     *)
(***************************************************************************)
ProcessRecord(r, now) ==
    LET rawdata == B64Decode(r.data)
        gz == isgzip(rawdata.head)
    IN  IF gz = "IndexError" THEN Raise("IndexError")
        ELSE IF gz = "yes" /\ rawdata.body # "gzip" THEN Raise("EOFError")
        ELSE IF rawdata.body = "badutf8" THEN Raise("UnicodeDecodeError")
        ELSE LET doc == rawdata.text
                 parsed == Loads(doc)
             IN  IF ~parsed.ok THEN Plaintext(doc, r.recordId, now)
                 ELSE Dispatch(parsed.val, r.recordId, now)

(***************************************************************************)
(* The invocation                                                          *)
(***************************************************************************)
VARIABLES
    event,          \* the handler's argument
    pc,             \* where the invocation stands
    error,          \* the exception that ended the invocation, or "none"
    records,        \* list(processRecords(event["records"])), as filled so far
    assembled,      \* the records as processRecords yielded them
    dataByRecordId, projectedSize, putRecordBatches, recordsToReingest,
    totalRecordsToBeReingested, recordsReingestedSoFar,
    idx,            \* position of the partition loop in records
    batchIdx,       \* position of the delivery loop in putRecordBatches
    putRecords,     \* the records argument of the running put call
    attemptsMade,   \* its attemptsMade argument
    maxAttempts,    \* its maxAttempts argument
    response, failedRecords, errMsg,   \* its locals
    sinkLog         \* the client's record of the batches it was handed

vars ==
    << event, pc, error, records, assembled, dataByRecordId, projectedSize,
       putRecordBatches, recordsToReingest, totalRecordsToBeReingested,
       recordsReingestedSoFar, idx, batchIdx, putRecords, attemptsMade,
       maxAttempts, response, failedRecords, errMsg, sinkLog >>

\* the recordIds of an event of n records: record k has the recordId "r<k>",
\* except that in the events with a repeated recordId record dup[2] has the
\* recordId of the earlier record dup[1] (dup = <<0, 0>>: none is repeated)
RecordIdAt(k, dup) ==
    "r" \o ToString(IF k = dup[2] THEN dup[1] ELSE k)
Repeats(n) ==
    {<<0, 0>>} \cup {d \in (1..n) \X (1..n) : d[1] < d[2]}
\* readings of datetime.utcnow(), formatted "%Y-%m-%dT%X.%fZ"
Clock == {"2026-11-02T13:45:34.806719Z", "2026-11-02T13:45:35.000001Z"}
\* the reading whole invocations are run with
HandlerClock == {"2026-11-02T13:45:34.806719Z"}
KinesisArn == "arn:aws:kinesis:us-east-1:123456789012:stream/source"
FirehoseArn == "arn:aws:firehose:us-east-1:123456789012:deliverystream/splunk"

\* the i-th record of an event from a Kinesis stream, and from a direct put
KinesisRecord(id, payload, i) ==
    [recordId |-> id, data |-> B64Encode(payload),
     kinesisRecordMetadata |-> [partitionKey |-> "pk" \o ToString(i)]]
FirehoseRecord(id, payload) == [recordId |-> id, data |-> B64Encode(payload)]

\* the event whose i-th record has recordId f[i][1] and payload f[i][2]
MakeEvent(f, sas) ==
    IF sas
    THEN [records |-> [i \in DOMAIN f |-> KinesisRecord(f[i][1], f[i][2], i)],
          sourceKinesisStreamArn |-> KinesisArn,
          deliveryStreamArn |-> FirehoseArn]
    ELSE [records |-> [i \in DOMAIN f |-> FirehoseRecord(f[i][1], f[i][2])],
          deliveryStreamArn |-> FirehoseArn]

isSas == "sourceKinesisStreamArn" \in DOMAIN event
None == [none |-> TRUE]
IsNone(r) == "none" \in DOMAIN r

Locals ==
    /\ error = "none"
    /\ records = << >>
    /\ assembled = << >>
    /\ dataByRecordId = << >>
    /\ projectedSize = 0
    /\ putRecordBatches = << >>
    /\ recordsToReingest = << >>
    /\ totalRecordsToBeReingested = 0
    /\ recordsReingestedSoFar = 0
    /\ idx = 1
    /\ batchIdx = 1
    /\ putRecords = << >>
    /\ attemptsMade = 0
    /\ maxAttempts = HandlerMaxAttempts
    /\ response = None
    /\ failedRecords = << >>
    /\ errMsg = ""
    /\ sinkLog = << >>

Init ==
    /\ \E n \in 0..MaxRecords, sas \in BOOLEAN :
          \E g \in [1..n -> HandlerPayloads], dup \in Repeats(n) :
             event = MakeEvent([k \in 1..n |-> <<RecordIdAt(k, dup), g[k]>>], sas)
    /\ pc = "assemble"
    /\ Locals

(***************************************************************************)
(* Assembly: list(processRecords(event["records"])), one record a step.    *)
(***************************************************************************)
Assemble(now) ==
    /\ pc = "assemble"
    /\ Len(records) < Len(event.records)
    /\ LET out == ProcessRecord(event.records[Len(records) + 1], now)
       IN  IF out.exc # "none"
           THEN /\ pc' = "raised"
                /\ error' = out.exc
                /\ UNCHANGED <<records, assembled>>
           ELSE /\ records' = Append(records, out.rec)
                /\ assembled' = Append(assembled, out.rec)
                /\ UNCHANGED <<pc, error>>
    /\ UNCHANGED << event, dataByRecordId, projectedSize, putRecordBatches,
                    recordsToReingest, totalRecordsToBeReingested,
                    recordsReingestedSoFar, idx, batchIdx, putRecords,
                    attemptsMade, maxAttempts, response, failedRecords, errMsg, sinkLog >>

createReingestionRecord(sas, originalRecord) ==
    IF sas
    THEN [data |-> B64Decode(originalRecord.data),
          partitionKey |-> originalRecord.kinesisRecordMetadata.partitionKey]
    ELSE [data |-> B64Decode(originalRecord.data)]

getReingestionRecord(sas, reIngestionRecord) ==
    IF sas
    THEN [Data |-> reIngestionRecord.data,
          PartitionKey |-> reIngestionRecord.partitionKey]
    ELSE [Data |-> reIngestionRecord.data]

\* a variant that keeps the first entry written
KeptEntry_First(recs, id) ==
    CHOOSE i \in 1..Len(recs) :
        /\ recs[i].recordId = id
        /\ \A j \in 1..(i - 1) : recs[j].recordId # id

\* the entry a dict comprehension keeps for key id: the last one written
KeptEntry(recs, id) ==
    CHOOSE i \in 1..Len(recs) :
        /\ recs[i].recordId = id
        /\ \A j \in (i + 1)..Len(recs) : recs[j].recordId # id

\* lines 293-299: the lookup of original payloads by recordId
BuildIndex ==
    /\ pc = "assemble"
    /\ Len(records) = Len(event.records)
    /\ dataByRecordId' =
          [id \in {event.records[i].recordId : i \in 1..Len(event.records)} |->
              createReingestionRecord(isSas, event.records[KeptEntry(event.records, id)])]
    /\ projectedSize' = 0
    /\ putRecordBatches' = << >>
    /\ recordsToReingest' = << >>
    /\ totalRecordsToBeReingested' = 0
    /\ idx' = 1
    /\ pc' = "partition"
    /\ UNCHANGED << event, error, records, assembled, recordsReingestedSoFar,
                    batchIdx, putRecords, attemptsMade, maxAttempts, response, failedRecords,
                    errMsg, sinkLog >>

\* variants of the three definitions below, each with one slip
ExceedsCeiling_AtCeiling(size) == size >= maxSize
BatchFull_Late(batch) == Len(batch) > BatchLimit
DivertAt_DeleteRecord(recs, i) == SubSeq(recs, 1, i - 1) \o SubSeq(recs, i + 1, Len(recs))
DivertAt_KeepData(recs, i) == [recs EXCEPT ![i].result = "Dropped"]

\* a variant that measures each record alone against the ceiling
Projected_PerRecord(total, rec) == DataLen(rec.data) + Len(rec.recordId)
\* a variant that seals the queue also when it is empty
SealNeeded_Always(queue) == TRUE
\* a variant that re-marks every record from the diverted one on
DivertAt_AllFrom(recs, i) ==
    [j \in 1..Len(recs) |->
        IF j >= i THEN [result |-> "Dropped", recordId |-> recs[j].recordId] ELSE recs[j]]

\* a variant that puts the new record at the head of the queue
Enqueue_Front(queue, rr) == <<rr>> \o queue

\* line 315: recordsToReingest.append(...)
Enqueue(queue, rr) == Append(queue, rr)
\* line 305: projectedSize += len(rec["data"]) + len(rec["recordId"])
Projected(total, rec) == total + DataLen(rec.data) + Len(rec.recordId)
\* line 327
SealNeeded(queue) == Len(queue) > 0
\* line 308
ExceedsCeiling(size) == size > maxSize
\* line 322
BatchFull(batch) == Len(batch) = BatchLimit
\* lines 318-319: records[idx]["result"] = "Dropped"; del records[idx]["data"]
DivertAt(recs, i) ==
    [recs EXCEPT ![i] = [result |-> "Dropped", recordId |-> recs[i].recordId]]

\* lines 301-325: one turn of the partition loop
Partition ==
    /\ pc = "partition"
    /\ idx <= Len(records)
    /\ LET rec == records[idx]
           size == Projected(projectedSize, rec)
           diverted == ExceedsCeiling(size)
           queue == IF diverted
                    THEN Enqueue(recordsToReingest,
                                 getReingestionRecord(isSas, dataByRecordId[rec.recordId]))
                    ELSE recordsToReingest
       IN  IF rec.result # "Ok"
           THEN UNCHANGED << records, projectedSize, putRecordBatches,
                             recordsToReingest, totalRecordsToBeReingested >>
           ELSE /\ projectedSize' = size
                /\ totalRecordsToBeReingested' =
                      totalRecordsToBeReingested + (IF diverted THEN 1 ELSE 0)
                /\ records' = IF diverted THEN DivertAt(records, idx) ELSE records
                /\ IF BatchFull(queue)
                   THEN /\ putRecordBatches' = Append(putRecordBatches, queue)
                        /\ recordsToReingest' = << >>
                   ELSE /\ recordsToReingest' = queue
                        /\ UNCHANGED putRecordBatches
    /\ idx' = idx + 1
    /\ UNCHANGED << event, pc, error, assembled, dataByRecordId,
                    recordsReingestedSoFar, batchIdx, putRecords, attemptsMade, maxAttempts,
                    response, failedRecords, errMsg, sinkLog >>

\* lines 327-337: the last, partly filled batch
SealLast ==
    /\ pc = "partition"
    /\ idx > Len(records)
    /\ IF SealNeeded(recordsToReingest)
       THEN putRecordBatches' = Append(putRecordBatches, recordsToReingest)
       ELSE UNCHANGED putRecordBatches
    /\ recordsReingestedSoFar' = 0
    /\ batchIdx' = 1
    /\ pc' = "deliver"
    /\ UNCHANGED << event, error, records, assembled, dataByRecordId,
                    projectedSize, recordsToReingest, totalRecordsToBeReingested,
                    idx, putRecords, attemptsMade, maxAttempts, response, failedRecords,
                    errMsg, sinkLog >>

(***************************************************************************)
(* Delivery.  The sink's answer to one put call is the environment's       *)
(* choice: the call raises, or it returns a failed count and one outcome   *)
(* per record.  A well-behaved sink answers every record and counts its    *)
(* rejections; the full set of answers also has outcome lists one shorter  *)
(* and one longer than the batch, empty error codes and miscounts.         *)
(***************************************************************************)
Accepted == [RecordId |-> "shard-0"]
EmptyCode == [RecordId |-> "shard-0", ErrorCode |-> ""]
Rejected == [ErrorCode |-> "ServiceUnavailableException"]

\* a variant that takes an empty code for an error
HasErrorCode_AnyCode(res) == "ErrorCode" \in DOMAIN res

\* not ("ErrorCode" not in res or not res["ErrorCode"])
HasErrorCode(res) == "ErrorCode" \in DOMAIN res /\ res.ErrorCode # ""

NumRejected(outs) == Cardinality({i \in 1..Len(outs) : outs[i] = Rejected})

SinkAnswers(n, full) ==
    IF full
    THEN { [failed |-> c, outs |-> outs] :
             outs \in UNION { [1..m -> {Accepted, EmptyCode, Rejected}] :
                                m \in (n - 1)..(n + 1) },
             c \in 0..1 }
         \cup { [failed |-> NumRejected(outs), outs |-> outs] :
                  outs \in [1..n -> {Accepted, Rejected}] }
    ELSE { [failed |-> NumRejected(outs), outs |-> outs] :
             outs \in [1..n -> {Accepted, Rejected}] }

SinkDown == "An error occurred (ServiceUnavailableException)"

\* a variant that allows one attempt more
RetryAllowed_OneMore(made, most) == made + 1 <= most

\* line 206 (and 252)
RetryAllowed(made, most) == made + 1 < most

\* a variant that forgets the batch when the call raises
FailedOnRaise_Nothing(recs) == << >>

\* line 190 (and 236): failedRecords = records
FailedOnRaise(recs) == recs

\* a variant that keeps only the first record with an error code
CollectFailed_FirstOnly(recs, outs, i) ==
    LET coded == {p \in 1..Len(outs) : HasErrorCode(outs[p])}
    IN  IF coded = {} THEN << >>
        ELSE <<recs[CHOOSE p \in coded : \A q \in coded : p <= q]>>
\* a variant that takes the whole batch for failed when one record is
CollectFailed_WholeBatch(recs, outs, i) ==
    IF \E p \in 1..Len(outs) : HasErrorCode(outs[p]) THEN recs ELSE << >>

RECURSIVE CollectFailed(_, _, _)
\* lines 195-201: the records whose outcome carries an error code, from index i on
CollectFailed(recs, outs, i) ==
    IF i > Len(outs) THEN << >>
    ELSE (IF HasErrorCode(outs[i]) THEN <<recs[i]>> ELSE << >>)
         \o CollectFailed(recs, outs, i + 1)

RECURSIVE JoinCodes(_, _, _)
\* ",".join(codes)
JoinCodes(outs, i, first) ==
    IF i > Len(outs) THEN ""
    ELSE IF HasErrorCode(outs[i])
    THEN (IF first THEN "" ELSE ",") \o outs[i].ErrorCode \o JoinCodes(outs, i + 1, FALSE)
    ELSE JoinCodes(outs, i + 1, first)

\* a variant that walks the batches from the last one
BatchAt_Reversed(batches, i) == batches[Len(batches) - i + 1]

\* line 344: the batch the delivery loop hands to the put function
BatchAt(batches, i) == batches[i]

\* lines 338-352 and 179-184: the call of the put function on the next batch
CallPut ==
    /\ pc = "deliver"
    /\ batchIdx <= Len(putRecordBatches)
    /\ putRecords' = BatchAt(putRecordBatches, batchIdx)
    /\ attemptsMade' = 0
    /\ maxAttempts' = HandlerMaxAttempts
    /\ failedRecords' = << >>
    /\ response' = None
    /\ errMsg' = ""
    /\ pc' = "submit"
    /\ UNCHANGED << event, error, records, assembled, dataByRecordId,
                    projectedSize, putRecordBatches, recordsToReingest,
                    totalRecordsToBeReingested, recordsReingestedSoFar, idx,
                    batchIdx, sinkLog >>

\* what the sink itself knows of a call on n records: the positions it reported
\* without an error code, and whether it answered as its interface says (one
\* outcome per record, a failed count above zero when an outcome has a code)
SinkView(answer, raised, n) ==
    IF raised THEN [accepted |-> {}, proper |-> TRUE]
    ELSE [accepted |-> {p \in 1..n : /\ p <= Len(answer.outs)
                                     /\ \/ "ErrorCode" \notin DOMAIN answer.outs[p]
                                        \/ answer.outs[p].ErrorCode = ""},
          proper |-> /\ Len(answer.outs) = n
                     /\ (\E p \in 1..n : /\ "ErrorCode" \in DOMAIN answer.outs[p]
                                          /\ answer.outs[p].ErrorCode # "")
                           => answer.failed > 0]

\* the client call and its except clause, with the answer the sink gave
Submit(answer, raised, countKey, listKey) ==
    /\ sinkLog' = Append(sinkLog, [batch |-> batchIdx, attempt |-> attemptsMade + 1,
                                   records |-> putRecords,
                                   view |-> SinkView(answer, raised, Len(putRecords))])
    /\ IF raised
       THEN /\ failedRecords' = FailedOnRaise(putRecords)
            /\ errMsg' = SinkDown
            /\ UNCHANGED response
       ELSE /\ response' = (countKey :> answer.failed) @@ (listKey :> answer.outs)
            /\ UNCHANGED <<failedRecords, errMsg>>
    /\ pc' = "reconcile"
    /\ UNCHANGED << event, error, records, assembled, dataByRecordId,
                    projectedSize, putRecordBatches, recordsToReingest,
                    totalRecordsToBeReingested, recordsReingestedSoFar, idx,
                    batchIdx, putRecords, attemptsMade, maxAttempts >>

\* lines 194-218: what the put function does with the answer
Reconcile(countKey, listKey) ==
    LET inspect == /\ failedRecords = << >>
                   /\ ~IsNone(response)
                   /\ response[countKey] > 0
        outs == response[listKey]
        overrun == inspect /\ \E i \in (Len(putRecords) + 1)..Len(outs) :
                                  HasErrorCode(outs[i])
        failed == IF inspect THEN CollectFailed(putRecords, outs, 1) ELSE failedRecords
        msg == IF inspect
               THEN "Individual error codes: " \o JoinCodes(outs, 1, TRUE)
               ELSE errMsg
    IN  /\ IF overrun
           THEN /\ pc' = "raised"
                /\ error' = "IndexError"
                /\ UNCHANGED << putRecords, attemptsMade, maxAttempts, response,
                                failedRecords, errMsg >>
           ELSE IF Len(failed) > 0
           THEN IF RetryAllowed(attemptsMade, maxAttempts)
                THEN /\ putRecords' = failed
                     /\ attemptsMade' = attemptsMade + 1
                     /\ failedRecords' = << >>
                     /\ response' = None
                     /\ errMsg' = ""
                     /\ pc' = "submit"
                     /\ UNCHANGED <<error, maxAttempts>>
                ELSE /\ pc' = "raised"
                     /\ error' = "RuntimeError"
                     /\ failedRecords' = failed
                     /\ errMsg' = msg
                     /\ UNCHANGED <<putRecords, attemptsMade, maxAttempts, response>>
           ELSE /\ pc' = "delivered"
                /\ errMsg' = msg
                /\ UNCHANGED << error, putRecords, attemptsMade, maxAttempts,
                                response, failedRecords >>
        /\ UNCHANGED << event, records, assembled, dataByRecordId, projectedSize,
                        putRecordBatches, recordsToReingest,
                        totalRecordsToBeReingested, recordsReingestedSoFar, idx,
                        batchIdx, sinkLog >>

\* putRecordsToFirehoseStream, lines 185-191: client.put_record_batch
FirehosePut(full) ==
    /\ pc = "submit"
    /\ ~isSas
    /\ \/ \E answer \in SinkAnswers(Len(putRecords), full) :
             Submit(answer, FALSE, "FailedPutCount", "RequestResponses")
       \/ Submit(None, TRUE, "FailedPutCount", "RequestResponses")

\* putRecordsToFirehoseStream, lines 194-218
FirehoseReconcile ==
    /\ pc = "reconcile"
    /\ ~isSas
    /\ Reconcile("FailedPutCount", "RequestResponses")

\* putRecordsToKinesisStream, lines 233-237: client.put_records
KinesisPut(full) ==
    /\ pc = "submit"
    /\ isSas
    /\ \/ \E answer \in SinkAnswers(Len(putRecords), full) :
             Submit(answer, FALSE, "FailedRecordCount", "Records")
       \/ Submit(None, TRUE, "FailedRecordCount", "Records")

\* putRecordsToKinesisStream, lines 240-264
KinesisReconcile ==
    /\ pc = "reconcile"
    /\ isSas
    /\ Reconcile("FailedRecordCount", "Records")

\* lines 353-361: back in the handler's loop
BatchDelivered ==
    /\ pc = "delivered"
    /\ recordsReingestedSoFar' = recordsReingestedSoFar + Len(putRecordBatches[batchIdx])
    /\ batchIdx' = batchIdx + 1
    /\ pc' = "deliver"
    /\ UNCHANGED << event, error, records, assembled, dataByRecordId,
                    projectedSize, putRecordBatches, recordsToReingest,
                    totalRecordsToBeReingested, idx, putRecords, attemptsMade, maxAttempts,
                    response, failedRecords, errMsg, sinkLog >>

\* lines 362-366: return {"records": records}
Return ==
    /\ pc = "deliver"
    /\ batchIdx > Len(putRecordBatches)
    /\ pc' = "done"
    /\ UNCHANGED << event, error, records, assembled, dataByRecordId,
                    projectedSize, putRecordBatches, recordsToReingest,
                    totalRecordsToBeReingested, recordsReingestedSoFar, idx,
                    batchIdx, putRecords, attemptsMade, maxAttempts, response, failedRecords,
                    errMsg, sinkLog >>

Next ==
    \/ \E now \in HandlerClock : Assemble(now)
    \/ BuildIndex
    \/ Partition
    \/ SealLast
    \/ CallPut
    \/ FirehosePut(FALSE)
    \/ KinesisPut(FALSE)
    \/ FirehoseReconcile
    \/ KinesisReconcile
    \/ BatchDelivered
    \/ Return

\* a whole invocation, on the handler's payloads and a well-behaved sink
Spec == Init /\ [][Next]_vars

(***************************************************************************)
(* The put functions alone: one top-level call on a batch of re-ingestion  *)
(* records, against every answer of the sink.                              *)
(***************************************************************************)
SinkPayloads == {P_hi, P_data1}
SinkBatches(sas) ==
    UNION { { [i \in 1..n |-> getReingestionRecord(sas,
                  [data |-> f[i], partitionKey |-> "pk" \o ToString(i)])] :
              f \in [1..n -> SinkPayloads] } : n \in 1..SinkBatch }

SinkInit ==
    /\ event \in { [records |-> << >>, sourceKinesisStreamArn |-> KinesisArn,
                    deliveryStreamArn |-> FirehoseArn],
                   [records |-> << >>, deliveryStreamArn |-> FirehoseArn] }
    /\ putRecords \in SinkBatches(isSas)
    /\ putRecordBatches = <<putRecords>>
    /\ pc = "submit"
    /\ error = "none"
    /\ records = << >>
    /\ assembled = << >>
    /\ dataByRecordId = << >>
    /\ projectedSize = 0
    /\ recordsToReingest = << >>
    /\ totalRecordsToBeReingested = Len(putRecords)
    /\ recordsReingestedSoFar = 0
    /\ idx = 1
    /\ batchIdx = 1
    /\ attemptsMade = 0
    /\ maxAttempts \in 1..SinkMaxAttempts
    /\ response = None
    /\ failedRecords = << >>
    /\ errMsg = ""
    /\ sinkLog = << >>

SinkNext ==
    \/ FirehosePut(TRUE)
    \/ KinesisPut(TRUE)
    \/ FirehoseReconcile
    \/ KinesisReconcile

SinkSpec == SinkInit /\ [][SinkNext]_vars

(***************************************************************************)
(* processRecords alone: list(processRecords(event["records"])) on every   *)
(* payload of the model, with every reading of the clock.                  *)
(***************************************************************************)
AsmInit ==
    /\ \E n \in 0..AsmRecords :
          \E g \in [1..n -> Payloads] :
             event = MakeEvent([i \in 1..n |->
                                   <<IF i % 2 = 1 THEN "r1" ELSE "r2", g[i]>>], FALSE)
    /\ pc = "assemble"
    /\ Locals

AsmNext == \E now \in Clock : Assemble(now)

AsmSpec == AsmInit /\ [][AsmNext]_vars

(***************************************************************************)
(* Properties                                                              *)
(***************************************************************************)
\* the partition loop and the last seal are over
Partitioned == pc \in {"deliver", "submit", "reconcile", "delivered", "done"}
\* record i was yielded Ok and the Partitioner re-marked it
Diverted(i) == assembled[i].result = "Ok" /\ records[i].result = "Dropped"
DivertedSet == {i \in 1..Len(records) : Diverted(i)}

\* C1: when the handler returns, the output has as many records as the input
\* and the recordId at each position is the input's recordId at that position,
\* re-marked records included.
C1_SameLengthSameIds ==
    pc = "done" =>
        /\ Len(records) = Len(event.records)
        /\ \A i \in 1..Len(records) : records[i].recordId = event.records[i].recordId

C1_Witness ==
    /\ pc = "done"
    /\ Len(records) >= 2
    /\ records[1].recordId # records[2].recordId
    /\ \E i \in 1..Len(records) : Diverted(i)

\* C2: the only abort of an invocation is the fatal delivery error; processRecords
\* never raises, whatever the payload.
C2_OnlyDeliveryAborts == pc = "raised" => error = "RuntimeError"

\* C3: at every moment each output record holds data if and only if its result
\* is Ok (so a diverted record loses data in the step that marks it Dropped).
C3_DataIffOk ==
    \A i \in 1..Len(records) : ("data" \in DOMAIN records[i]) <=> (records[i].result = "Ok")

C3_Witness ==
    /\ pc = "done"
    /\ \E i \in 1..Len(records) : records[i].result = "Ok"
    /\ \E i \in 1..Len(records) : Diverted(i)
    /\ \E i \in 1..Len(records) : records[i].result = "ProcessingFailed"

\* len(data) + len(recordId) of an Ok record as assembled, 0 for the others
OkSize(i) ==
    IF assembled[i].result = "Ok"
    THEN DataLen(assembled[i].data) + Len(assembled[i].recordId)
    ELSE 0
RECURSIVE RunningTotal(_)
RunningTotal(i) == IF i = 0 THEN 0 ELSE RunningTotal(i - 1) + OkSize(i)
Crossings ==
    {i \in 1..Len(assembled) : assembled[i].result = "Ok" /\ RunningTotal(i) > maxSize}

\* C4: after the walk, if the total over the Ok records does not exceed maxSize
\* nothing is diverted; otherwise the diverted records are exactly the Ok records
\* from the first crossing on, each Dropped and without data, and every other
\* record is as assembled.
C4_DivertedFromCrossing ==
    Partitioned =>
        /\ Len(records) = Len(assembled)
        /\ IF RunningTotal(Len(assembled)) <= maxSize
           THEN records = assembled
           ELSE LET k == CHOOSE c \in Crossings : \A d \in Crossings : c <= d
                IN  \A i \in 1..Len(assembled) :
                       IF assembled[i].result = "Ok" /\ i >= k
                       THEN /\ records[i].result = "Dropped"
                            /\ "data" \notin DOMAIN records[i]
                       ELSE records[i] = assembled[i]

C4_Witness ==
    /\ pc = "done"
    /\ \E i, j, l \in 1..Len(records) :
          /\ i < j /\ j < l
          /\ records[i].result = "Ok"
          /\ Diverted(j)
          /\ Diverted(l)

Ceil(a, b) == (a + b - 1) \div b

\* C5: every sealed batch has between 1 and BatchLimit entries, every batch but
\* the last has exactly BatchLimit, and after the walk there are
\* ceil(d / BatchLimit) batches for d diverted records.
C5_BatchSizes ==
    /\ \A b \in 1..Len(putRecordBatches) :
          /\ Len(putRecordBatches[b]) >= 1
          /\ Len(putRecordBatches[b]) <= BatchLimit
          /\ (b < Len(putRecordBatches) \/ pc = "partition")
                => Len(putRecordBatches[b]) = BatchLimit
    /\ Partitioned =>
          Len(putRecordBatches) = Ceil(Cardinality(DivertedSet), BatchLimit)

C5_Witness ==
    /\ pc = "done"
    /\ Len(putRecordBatches) = 2
    /\ Len(putRecordBatches[1]) = BatchLimit
    /\ Len(putRecordBatches[2]) = 1

RECURSIVE Flatten(_)
Flatten(batches) ==
    IF Len(batches) = 0 THEN << >> ELSE Head(batches) \o Flatten(Tail(batches))
\* every re-ingestion record made so far, in the order made
Reingested ==
    Flatten(putRecordBatches) \o (IF pc = "partition" THEN recordsToReingest ELSE << >>)
\* the input position of the j-th diverted record
DivertedPos(j) ==
    CHOOSE i \in DivertedSet : Cardinality({m \in DivertedSet : m <= i}) = j
\* the last input position that has the recordId of position i
LastWithId(i) ==
    LET same == {m \in 1..Len(event.records) :
                    event.records[m].recordId = event.records[i].recordId}
    IN  CHOOSE m \in same : \A o \in same : o <= m
Walking == pc = "partition" \/ Partitioned

\* C6 (as claimed): the re-ingestion record of the diverted record at input
\* position i carries the undecoded payload of the input record at position i,
\* also when two input records share a recordId.
C6_PayloadOfSamePosition ==
    Walking =>
        /\ Len(Reingested) = Cardinality(DivertedSet)
        /\ \A j \in 1..Len(Reingested) :
              Reingested[j].Data = B64Decode(event.records[DivertedPos(j)].data)

\* C6 (amended): it carries the undecoded payload, and for a Kinesis source the
\* partition key, of the last input record that has the diverted record's
\* recordId (the record at position i itself when recordIds are distinct).
C6_PayloadOfLastSameId ==
    Walking =>
        /\ Len(Reingested) = Cardinality(DivertedSet)
        /\ \A j \in 1..Len(Reingested) :
              LET orig == event.records[LastWithId(DivertedPos(j))]
              IN  /\ Reingested[j].Data = B64Decode(orig.data)
                  /\ isSas => Reingested[j].PartitionKey
                                 = orig.kinesisRecordMetadata.partitionKey
                  /\ ~isSas => DOMAIN Reingested[j] = {"Data"}

C6_Witness ==
    /\ pc = "done"
    /\ \E i \in DivertedSet :
          /\ LastWithId(i) # i
          /\ event.records[LastWithId(i)].data # event.records[i].data
    /\ \E i \in DivertedSet : LastWithId(i) = i

\* the response's failed count and outcome list, for either client
ResponseCount == IF isSas THEN response.FailedRecordCount ELSE response.FailedPutCount
ResponseOutcomes == IF isSas THEN response.Records ELSE response.RequestResponses
\* the positions of the current attempt whose outcome carries a non-empty error code
ErrorCoded ==
    {i \in 1..Len(putRecords) :
        /\ i <= Len(ResponseOutcomes)
        /\ "ErrorCode" \in DOMAIN ResponseOutcomes[i]
        /\ ResponseOutcomes[i].ErrorCode # ""}
\* seq lists the records of from at the positions of set, in increasing order
ListsPositions(seq, from, set) ==
    /\ Len(seq) = Cardinality(set)
    /\ \A j \in 1..Len(seq) :
          \E i \in set : /\ Cardinality({m \in set : m <= i}) = j
                         /\ seq[j] = from[i]

\* C7: after a response with a nonzero failed count, the next attempt submits
\* exactly the records of this attempt whose outcome carries a non-empty error
\* code, in their order; the others are not resubmitted.
C7_RetryExactlyErrorCoded ==
    [][ (pc = "reconcile" /\ ~IsNone(response) /\ ResponseCount > 0 /\ pc' = "submit")
            => /\ ListsPositions(putRecords', putRecords, ErrorCoded)
               /\ attemptsMade' = attemptsMade + 1 ]_vars

C7_Witness ==
    /\ pc = "submit"
    /\ attemptsMade = 1
    /\ Len(sinkLog) = 1
    /\ Len(sinkLog[1].records) = 2
    /\ putRecords = <<sinkLog[1].records[2]>>
    /\ sinkLog[1].records[1] # sinkLog[1].records[2]

SubmissionsOf(b) == Cardinality({i \in 1..Len(sinkLog) : sinkLog[i].batch = b})
\* the attempt just answered leaves a non-empty failed subset: the call raised,
\* or the response counts failures and names error codes, all of them for
\* records of the batch
LeavesFailures ==
    \/ IsNone(response)
    \/ /\ ResponseCount > 0
       /\ ErrorCoded # {}
       /\ \A i \in (Len(putRecords) + 1)..Len(ResponseOutcomes) :
             ~("ErrorCode" \in DOMAIN ResponseOutcomes[i] /\ ResponseOutcomes[i].ErrorCode # "")

\* C8: a top-level put call makes at most maxAttempts submissions; when the
\* last allowed attempt leaves failures the fatal error is raised, it is raised
\* only then, and nothing is submitted afterwards, for this batch or a later one.
C8_AtMostMaxAttempts ==
    /\ [](/\ \A b \in 1..Len(putRecordBatches) : SubmissionsOf(b) <= maxAttempts
          /\ pc = "submit" => SubmissionsOf(batchIdx) = attemptsMade
          /\ error = "RuntimeError" =>
                /\ pc = "raised"
                /\ SubmissionsOf(batchIdx) = maxAttempts
                /\ \A b \in (batchIdx + 1)..Len(putRecordBatches) : SubmissionsOf(b) = 0)
    /\ [][ /\ (pc = "reconcile" /\ SubmissionsOf(batchIdx) = maxAttempts /\ LeavesFailures)
              => (pc' = "raised" /\ error' = "RuntimeError")
           /\ pc = "raised" => sinkLog' = sinkLog ]_vars

C8_Witness ==
    /\ pc = "raised"
    /\ error = "RuntimeError"
    /\ Len(putRecordBatches) = 2
    /\ batchIdx = 1
    /\ Len(sinkLog) = maxAttempts
    /\ Len(failedRecords) < Len(putRecordBatches[1])

\* C9: when the client call raises, the failed subset is the whole batch of the
\* attempt, and that whole batch is resubmitted in the next attempt or, with the
\* attempts used up, the fatal error is raised.
C9_RaiseFailsWholeBatch ==
    /\ [][ (pc = "submit" /\ pc' = "reconcile" /\ IsNone(response'))
              => failedRecords' = putRecords ]_vars
    /\ [][ (pc = "reconcile" /\ IsNone(response))
              => \/ /\ attemptsMade + 1 < maxAttempts
                    /\ pc' = "submit"
                    /\ putRecords' = putRecords
                    /\ attemptsMade' = attemptsMade + 1
                 \/ /\ attemptsMade + 1 >= maxAttempts
                    /\ pc' = "raised"
                    /\ error' = "RuntimeError"
                    /\ failedRecords' = putRecords ]_vars

C9_Witness ==
    /\ pc = "reconcile"
    /\ IsNone(response)
    /\ attemptsMade = 1
    /\ Len(putRecords) = 2
    /\ failedRecords = putRecords
    /\ sinkLog[1].records = putRecords

RECURSIVE DeliveredLen(_)
\* the records of the first b batches
DeliveredLen(b) == IF b = 0 THEN 0 ELSE DeliveredLen(b - 1) + Len(putRecordBatches[b])

\* C10: batches are delivered one at a time in sealing order: the first
\* submission of a batch hands over that sealed batch and follows the end of the
\* previous batch's delivery, retries follow their own batch's previous attempt,
\* and on return every sealed batch had exactly one top-level call.
C10_BatchesInOrder ==
    /\ \A i \in 1..Len(sinkLog) :
          LET e == sinkLog[i]
          IN  /\ e.batch \in 1..Len(putRecordBatches)
              /\ e.batch <= batchIdx
              /\ IF e.attempt = 1
                 THEN /\ e.records = putRecordBatches[e.batch]
                      /\ IF i = 1 THEN e.batch = 1
                         ELSE sinkLog[i - 1].batch = e.batch - 1
                 ELSE /\ i > 1
                      /\ sinkLog[i - 1].batch = e.batch
                      /\ sinkLog[i - 1].attempt = e.attempt - 1
    /\ Partitioned =>
          /\ recordsReingestedSoFar = DeliveredLen(batchIdx - 1)
          /\ \A b \in 1..(batchIdx - 1) : SubmissionsOf(b) >= 1
    /\ pc = "done" =>
          /\ batchIdx = Len(putRecordBatches) + 1
          /\ \A b \in 1..Len(putRecordBatches) :
                Cardinality({i \in 1..Len(sinkLog) :
                                sinkLog[i].batch = b /\ sinkLog[i].attempt = 1}) = 1

C10_Witness ==
    /\ pc = "done"
    /\ Len(putRecordBatches) = 2
    /\ putRecordBatches[1][1] # putRecordBatches[2][1]
    /\ Len(sinkLog) = 4

\* the payload decodes to a JSON object whose messageType is mt
HasMessageType(payload, mt) ==
    /\ payload.body \in {"utf8", "gzip"}
    /\ Loads(payload.text).ok
    /\ LET data == Loads(payload.text).val
       IN  /\ data.t = "obj"
           /\ HasKey(data, "messageType")
           /\ GetKey(data, "messageType") = Str(mt)
\* input record i is a control message
IsControl(i) == HasMessageType(B64Decode(event.records[i].data), "CONTROL_MESSAGE")

IsUnrecognized(i) ==
    LET payload == B64Decode(event.records[i].data)
    IN  /\ payload.body \in {"utf8", "gzip"}
        /\ Loads(payload.text).ok
        /\ LET data == Loads(payload.text).val
           IN  /\ data.t = "obj"
               /\ HasKey(data, "messageType")
               /\ GetKey(data, "messageType")
                     \notin {Str("DATA_MESSAGE"), Str("CONTROL_MESSAGE")}
\* it also has container_id and log
HasContainerLog(i) ==
    LET data == Loads(B64Decode(event.records[i].data).text).val
    IN  HasKey(data, "container_id") /\ HasKey(data, "log")
\* record i of the output, as assembled and as the Partitioner leaves it, is
\* exactly a record with this result, the input's recordId and no data
YieldsUnchanged(i, result) ==
    /\ assembled[i] = [result |-> result, recordId |-> event.records[i].recordId]
    /\ records[i] = assembled[i]

\* C12 (as claimed): an envelope with another messageType yields a record with
\* result "Failed" and no data, with container_id and log too, and the
\* Partitioner returns it unchanged.
C12_UnrecognizedFailed ==
    \A i \in 1..Len(assembled) : IsUnrecognized(i) => YieldsUnchanged(i, "Failed")

\* C12 (amended): it yields a record with result "ProcessingFailed" and no data,
\* with container_id and log too, and the Partitioner returns it unchanged.
C12_UnrecognizedProcessingFailed ==
    \A i \in 1..Len(assembled) : IsUnrecognized(i) => YieldsUnchanged(i, "ProcessingFailed")

C12_Witness ==
    /\ pc = "done"
    /\ \E i, j \in 1..Len(records), d \in DivertedSet :
          /\ d < i
          /\ j < d
          /\ IsUnrecognized(i) /\ HasContainerLog(i)
          /\ IsUnrecognized(j)

\* the payload decodes to a text that is not a JSON document
NonJson(payload) ==
    /\ payload.body \in {"utf8", "gzip"}
    /\ ~Loads(payload.text).ok
\* the document of a plain text wrapped as an event with a synthesized timestamp
WrappedText(text, now) ==
    Dumps(Obj(<< <<"event", Obj(<< <<"timestamp", Str(now)>>,
                                   <<"message", Str(text)>> >>)>> >>)) \o "\n"

\* C13: processRecords never raises on a payload that is not JSON, the empty
\* payload and payloads of one or two bytes included, and yields for it an Ok
\* record whose data is one newline-terminated document with the top-level key
\* event, the decoded text as message and a synthesized timestamp.
C13_NonJsonAlwaysOk ==
    /\ pc = "raised" => ~NonJson(B64Decode(event.records[Len(records) + 1].data))
    /\ \A i \in 1..Len(assembled) :
          LET payload == B64Decode(event.records[i].data)
          IN  NonJson(payload) =>
                 \E now \in Clock :
                    assembled[i] = [recordId |-> event.records[i].recordId,
                                    result |-> "Ok",
                                    data |-> B64Encode(WrappedText(payload.text, now))]

\* the re-ingestion record made of input record i
ReingestionOf(i) ==
    getReingestionRecord(isSas, createReingestionRecord(isSas, event.records[i]))
RECURSIVE FirstHanded(_)
\* what the first n calls of the client were handed in first attempts, in order
FirstHanded(n) ==
    IF n = 0 THEN << >>
    ELSE FirstHanded(n - 1)
         \o (IF sinkLog[n].attempt = 1 THEN sinkLog[n].records ELSE << >>)
\* the batches hold one entry per diverted record, in input order, and the
\* first attempts hand them to the sink as sealed, batch after batch
InOrderOnce ==
    /\ Len(Flatten(putRecordBatches)) = Cardinality(DivertedSet)
    /\ FirstHanded(Len(sinkLog))
          = SubSeq(Flatten(putRecordBatches), 1, Len(FirstHanded(Len(sinkLog))))
    /\ pc = "done" => FirstHanded(Len(sinkLog)) = Flatten(putRecordBatches)

\* C14 (as claimed): after the walk the sealed batches, concatenated, list the
\* diverted records in input order, each once and nothing else, the j-th entry
\* being the re-ingestion record of the j-th diverted input record; the first
\* submissions hand the sink these entries in this order.
C14_DivertedInOrderOnce ==
    Partitioned =>
        /\ InOrderOnce
        /\ \A j \in 1..Len(Flatten(putRecordBatches)) :
              Flatten(putRecordBatches)[j] = ReingestionOf(DivertedPos(j))

\* C14 (amended): the sealed batches, concatenated, hold one entry per diverted
\* record, in the input order of the diverted records and nothing else, the j-th
\* entry being the re-ingestion record of the last input record that has the
\* recordId of the j-th diverted record; the first submissions hand the sink
\* these entries in this order.
C14_LookedUpInOrderOnce ==
    Partitioned =>
        /\ InOrderOnce
        /\ \A j \in 1..Len(Flatten(putRecordBatches)) :
              Flatten(putRecordBatches)[j] = ReingestionOf(LastWithId(DivertedPos(j)))

C14_Witness ==
    /\ pc = "done"
    /\ Len(putRecordBatches) = 2
    /\ putRecordBatches[1][1] # putRecordBatches[1][2]
    /\ putRecordBatches[1][2] # putRecordBatches[2][1]
    /\ Len(sinkLog) > 2
    /\ \A d \in DivertedSet : LastWithId(d) = d

\* the JSON object input record i decodes to (for a record that decodes to one)
EnvelopeOf(i) == Loads(B64Decode(event.records[i].data).text).val
\* input record i is a data envelope: a DATA_MESSAGE with owner, logGroup,
\* logStream and a list of log events
IsDataEnvelope(i) ==
    /\ HasMessageType(B64Decode(event.records[i].data), "DATA_MESSAGE")
    /\ \A k \in {"owner", "logGroup", "logStream", "logEvents"} : HasKey(EnvelopeOf(i), k)
    /\ GetKey(EnvelopeOf(i), "logEvents").t = "arr"
LogEventsOf(i) == GetKey(EnvelopeOf(i), "logEvents").v
\* the document of one log event of envelope data: its own fields, a timestamp
\* in front when it has none, then owner, log_group, log_stream, under "event"
ExpectedDocument(e, data, now) ==
    Dumps(Obj(<< <<"event",
                   Obj((IF HasKey(e, "timestamp") THEN << >>
                        ELSE << <<"timestamp", Str(now)>> >>)
                       \o e.v
                       \o << <<"owner", GetKey(data, "owner")>>,
                             <<"log_group", GetKey(data, "logGroup")>>,
                             <<"log_stream", GetKey(data, "logStream")>> >>)>> >>))
    \o "\n"
RECURSIVE ExpectedText(_, _, _)
\* the documents of the first n log events of input record i, one after another
ExpectedText(i, n, now) ==
    IF n = 0 THEN ""
    ELSE ExpectedText(i, n - 1, now)
         \o ExpectedDocument(LogEventsOf(i)[n], EnvelopeOf(i), now)

C16_NotOkUntouched ==
    /\ [](/\ \A i \in 1..Len(records) :
                assembled[i].result # "Ok" =>
                   /\ records[i] = assembled[i]
                   /\ records[i].recordId = event.records[i].recordId
                   /\ ~Diverted(i)
          /\ Walking => projectedSize = RunningTotal(idx - 1))
    /\ [][ (pc = "partition" /\ idx <= Len(records) /\ records[idx].result # "Ok")
              => /\ idx' = idx + 1
                 /\ UNCHANGED << records, projectedSize, recordsToReingest,
                                 putRecordBatches, totalRecordsToBeReingested >> ]_vars

C16_Witness ==
    /\ pc = "done"
    /\ \E d \in DivertedSet, i, j \in 1..Len(records) :
          /\ d < i
          /\ records[i].result = "ProcessingFailed"
          /\ records[j].result = "Dropped"
          /\ j \notin DivertedSet

RECURSIVE ReturnedSize(_)
\* len(data) + len(recordId) summed over the Ok records among the first n of the output
ReturnedSize(n) ==
    IF n = 0 THEN 0
    ELSE ReturnedSize(n - 1)
         + (IF records[n].result = "Ok"
            THEN DataLen(records[n].data) + Len(records[n].recordId) ELSE 0)

\* C17: in the output the handler returns, the sizes of the records still Ok add
\* up to at most maxSize.
C17_ReturnedWithinCeiling ==
    pc = "done" => ReturnedSize(Len(records)) <= maxSize

C17_Witness ==
    /\ pc = "done"
    /\ DivertedSet # {}
    /\ ReturnedSize(Len(records)) > 0
    /\ ReturnedSize(Len(records)) + 1 >= maxSize
    /\ projectedSize > maxSize

\* the top-level put call of batch b has returned
Returned(b) == b < batchIdx \/ (b = batchIdx /\ pc = "delivered")
\* every answer the sink gave for batch b was as its interface says
ProperFor(b) ==
    \A e \in 1..Len(sinkLog) : sinkLog[e].batch = b => sinkLog[e].view.proper
\* how often the sink reported a record equal to v of batch b without an error code
AcceptedCount(b, v) ==
    Cardinality({ep \in (1..Len(sinkLog)) \X (1..Len(putRecordBatches[b])) :
                    /\ sinkLog[ep[1]].batch = b
                    /\ ep[2] \in sinkLog[ep[1]].view.accepted
                    /\ sinkLog[ep[1]].records[ep[2]] = v})
\* how many records of seq equal v
Multiplicity(seq, v) == Cardinality({k \in 1..Len(seq) : seq[k] = v})
\* the sink reported record rr without an error code in some attempt
AcceptedOnce(rr) ==
    \E e \in 1..Len(sinkLog) :
       \E p \in sinkLog[e].view.accepted : sinkLog[e].records[p] = rr
\* every record of every batch whose call returned was reported without an
\* error code, as often as the batch holds it
ReturnedMeansAccepted ==
    \A b \in 1..Len(putRecordBatches) :
       (Returned(b) /\ ProperFor(b)) =>
          \A k \in 1..Len(putRecordBatches[b]) :
             AcceptedCount(b, putRecordBatches[b][k])
                >= Multiplicity(putRecordBatches[b], putRecordBatches[b][k])

\* C18 (as claimed): when the handler returns and the sink answered as its
\* interface says, every diverted input record was handed to the sink and
\* reported without an error code in some attempt.
C18_EveryDivertedAccepted ==
    /\ ReturnedMeansAccepted
    /\ (pc = "done" /\ \A b \in 1..Len(putRecordBatches) : ProperFor(b)) =>
          \A d \in DivertedSet : AcceptedOnce(ReingestionOf(d))

\* C18 (amended): when the handler returns and the sink answered as its
\* interface says, every record of every sealed batch was reported without an
\* error code in some attempt; for a diverted input record that is the record
\* made of the last input record with its recordId.
C18_EveryEntryAccepted ==
    /\ ReturnedMeansAccepted
    /\ (pc = "done" /\ \A b \in 1..Len(putRecordBatches) : ProperFor(b)) =>
          \A d \in DivertedSet : AcceptedOnce(ReingestionOf(LastWithId(d)))

C18_Witness ==
    /\ pc = "done"
    /\ Len(sinkLog) = 2
    /\ Len(sinkLog[1].records) = 2
    /\ sinkLog[1].view.accepted = {1}
    /\ sinkLog[2].view.accepted = {1}
    /\ \A d \in DivertedSet : LastWithId(d) = d

\* entries e and e + 1 of the sink's log are consecutive attempts of one call
NextAttempt(e) ==
    /\ e + 1 <= Len(sinkLog)
    /\ sinkLog[e + 1].batch = sinkLog[e].batch
    /\ sinkLog[e + 1].attempt = sinkLog[e].attempt + 1
\* how many records equal to v the sink reported without an error code in the
\* attempts of entry e's call before entry e
AcceptedBefore(e, v) ==
    Cardinality({fp \in (1..(e - 1)) \X (1..Len(putRecordBatches[sinkLog[e].batch])) :
                    /\ sinkLog[fp[1]].batch = sinkLog[e].batch
                    /\ fp[2] \in sinkLog[fp[1]].view.accepted
                    /\ sinkLog[fp[1]].records[fp[2]] = v})

\* C19: within one top-level call, what an attempt submits are records of the
\* previous attempt, in their order, none of them one the sink reported without
\* an error code; counted over the whole call, the records an attempt submits
\* and those accepted before it are never more than the batch holds.
C19_AcceptedNeverResubmitted ==
    \A e \in 1..Len(sinkLog) :
       /\ NextAttempt(e) =>
             \E S \in SUBSET (1..Len(sinkLog[e].records)) :
                /\ S \cap sinkLog[e].view.accepted = {}
                /\ ListsPositions(sinkLog[e + 1].records, sinkLog[e].records, S)
       /\ LET batch == putRecordBatches[sinkLog[e].batch]
          IN  \A k \in 1..Len(batch) :
                 Multiplicity(sinkLog[e].records, batch[k]) + AcceptedBefore(e, batch[k])
                    <= Multiplicity(batch, batch[k])
       /\ sinkLog[e].attempt > 1 => NextAttempt(e - 1)

C19_Witness ==
    /\ pc = "submit"
    /\ Len(sinkLog) = 2
    /\ Len(sinkLog[1].records) = 2
    /\ sinkLog[1].view.accepted = {1}
    /\ sinkLog[2].records = <<sinkLog[1].records[2]>>
    /\ sinkLog[2].view.accepted = {}
    /\ putRecords = sinkLog[2].records

\* C20: the sink is called only after every input record was assembled and the
\* walk and the last seal are over; an invocation that diverts nothing never
\* calls the sink and returns the records as they were assembled.
C20_SubmitAfterPartition ==
    /\ [](/\ sinkLog # << >> =>
                /\ pc \notin {"assemble", "partition"}
                /\ Len(assembled) = Len(event.records)
                /\ idx > Len(records)
          /\ (Partitioned /\ DivertedSet = {}) =>
                /\ sinkLog = << >>
                /\ putRecordBatches = << >>
                /\ records = assembled
                /\ Len(records) = Len(event.records))
    /\ [][ sinkLog' # sinkLog =>
              /\ pc = "submit"
              /\ Len(assembled) = Len(event.records)
              /\ idx > Len(records)
              /\ UNCHANGED << records, assembled, putRecordBatches >> ]_vars

C20_Witness ==
    /\ pc = "done"
    /\ DivertedSet = {}
    /\ Len(records) = 3
    /\ \E i, j \in 1..Len(records) :
          records[i].result = "Ok" /\ records[j].result # "Ok"

=============================================================================
